---- MODULE Spec2Model ----
(***************************************************************************)
(* Model of src/src/tesouro_data.py (class TesouroDireto): the asset code  *)
(* normaliser, the maturity parser, the file cache / fetcher, the          *)
(* spreadsheet reader and cleaner, and the get_treasury_data pipeline.     *)
(*                                                                         *)
(* A Python str is modelled as a sequence of one-character strings, so     *)
(* that replace(), the regular expression and the string ordering of the   *)
(* source are computed character by character.                             *)
(***************************************************************************)
EXTENDS Integers, Sequences, FiniteSets, TLC

VARIABLES
    \* ---- pure string functions (normaliser, maturity parser)
    code,        \* the argument string
    cop,         \* which function was applied last: "in", "norm", "round", "denorm", "mat"
    cout,        \* its result
    \* ---- spreadsheet reader
    book,        \* the workbook handed to _read_excel_file
    rdone,       \* whether _read_excel_file has returned
    table,       \* the table it returned
    \* ---- environment of the pipeline
    year,        \* datetime.now().year
    disk,        \* "ok", "full" (writing data fails) or "denied" (opening for write fails)
    epoch,       \* how many times the environment has changed
    \* ---- the cache directory
    rootDir,     \* whether cache_dir exists
    dirs,        \* the asset folders in it
    cache,       \* path |-> content of the file there; a path is <<normalized code, year>>
    \* ---- one call of get_treasury_data
    pc,          \* "idle", "validate", "download", "process", "returned", "raised"
    req,         \* the arguments of the call
    asset_codes, \* the local asset_codes after validation
    years,       \* the local years
    ai,          \* position of the asset loop
    yi,          \* position of the year loop
    all_files,   \* the local all_files
    result,      \* the DataFrame returned
    exc,         \* the exception raised, "" when none
    \* ---- history
    runs,        \* calls made so far
    ngets,       \* network GETs issued so far
    snap,        \* the cache directory and ngets when the current call began
    prev,        \* <<>> or <<the previous call: its arguments, outcome and epoch>>
    hist,        \* path |-> the fetches of it so far, in order
    lastFetch    \* <<>> or <<the last _download_file call>>

codeVars == <<code, cop, cout>>
readVars == <<book, rdone, table>>
envVars == <<year, disk, epoch>>
dirVars == <<rootDir, dirs, cache>>
callVars == <<pc, req, asset_codes, years, ai, yi, all_files, result, exc>>
histVars == <<runs, ngets, snap, prev, hist, lastFetch>>
runVars == <<envVars, dirVars, callVars, histVars>>
vars == <<codeVars, readVars, runVars>>

(***************************************************************************)
(* Characters and strings                                                  *)
(***************************************************************************)
Digits == <<"0", "1", "2", "3", "4", "5", "6", "7", "8", "9">>

IsDigit(c) == \E i \in 1..10 : Digits[i] = c

\* int() of one decimal digit
DigitVal(c) == (CHOOSE i \in 1..10 : Digits[i] = c) - 1

\* the two-character, zero-padded decimal form of n (n in 0..99)
TwoDigits(n) == <<Digits[(n \div 10) + 1], Digits[(n % 10) + 1]>>

\* code point of the characters the model uses (Python compares str by code point)
Ord(c) ==
    CASE c = "\t" -> 9
      [] c = "\n" -> 10
      [] c = " " -> 32
      [] c = "-" -> 45
      [] c = "/" -> 47
      [] IsDigit(c) -> 48 + DigitVal(c)
      [] c = "A" -> 65
      [] c = "B" -> 66
      [] c = "C" -> 67
      [] c = "D" -> 68
      [] c = "F" -> 70
      [] c = "L" -> 76
      [] c = "N" -> 78
      [] c = "P" -> 80
      [] c = "T" -> 84
      [] c = "X" -> 88
      [] c = "_" -> 95
      [] c = "a" -> 97
      [] c = "c" -> 99
      [] c = "i" -> 105
      [] c = "l" -> 108
      [] c = "n" -> 110
      [] c = "p" -> 112
      [] c = "r" -> 114
      [] OTHER -> 127

\* s < t for Python str: lexicographic by code point, a proper prefix first
RECURSIVE StrLess(_, _)
StrLess(s, t) ==
    IF t = <<>> THEN FALSE
    ELSE IF s = <<>> THEN TRUE
    ELSE IF s[1] = t[1] THEN StrLess(Tail(s), Tail(t))
    ELSE Ord(s[1]) < Ord(t[1])

\* str.replace(old, new): every non-overlapping occurrence, leftmost first
RECURSIVE Replace(_, _, _)
Replace(s, old, new) ==
    IF Len(s) < Len(old) THEN s
    ELSE IF SubSeq(s, 1, Len(old)) = old
         THEN new \o Replace(SubSeq(s, Len(old) + 1, Len(s)), old, new)
         ELSE <<s[1]>> \o Replace(Tail(s), old, new)

(***************************************************************************)
(* Asset catalog                                                           *)
(***************************************************************************)
LFT == <<"L", "F", "T">>
LTN == <<"L", "T", "N">>
NTN_C == <<"N", "T", "N", "-", "C">>
NTN_B == <<"N", "T", "N", "-", "B">>
NTN_B_Principal ==
    <<"N", "T", "N", "-", "B", "_", "P", "r", "i", "n", "c", "i", "p", "a", "l">>
NTN_F == <<"N", "T", "N", "-", "F">>

AVAILABLE_ASSETS == <<LFT, LTN, NTN_C, NTN_B, NTN_B_Principal, NTN_F>>

FIRST_YEAR == 2005

\* code in self.AVAILABLE_ASSETS
InCatalog(c) == \E i \in 1..Len(AVAILABLE_ASSETS) : AVAILABLE_ASSETS[i] = c

(***************************************************************************)
(* Code normaliser                                                         *)
(***************************************************************************)
normalize_asset_code(asset_code) ==
    Replace(Replace(asset_code, <<" ">>, <<"_">>), <<"-">>, <<"_">>)

\* the literals of _denormalize_asset_code
S_NTN_B_Principal ==
    <<"N", "T", "N", "_", "B", "_", "P", "r", "i", "n", "c", "i", "p", "a", "l">>
D_NTN_B_Principal ==
    <<"N", "T", "N", "-", "B", " ", "P", "r", "i", "n", "c", "i", "p", "a", "l">>
S_NTN_F == <<"N", "T", "N", "_", "F">>
S_NTN_B == <<"N", "T", "N", "_", "B">>
S_NTN_C == <<"N", "T", "N", "_", "C">>

\* the literal substring replacements of _denormalize_asset_code, in order
DenormRules ==
    << <<S_NTN_B_Principal, D_NTN_B_Principal>>,
       <<S_NTN_F, NTN_F>>,
       <<S_NTN_B, NTN_B>>,
       <<S_NTN_C, NTN_C>>,
       << <<"_">>, <<" ">> >> >>

RECURSIVE ApplyRules(_, _)
ApplyRules(s, rules) ==
    IF rules = <<>> THEN s
    ELSE ApplyRules(Replace(s, rules[1][1], rules[1][2]), Tail(rules))

\* a denormaliser that turns every separator into a space and restores no hyphen
DenormNoSpecialCases(asset_code) == Replace(asset_code, <<"_">>, <<" ">>)

denormalize_asset_code(asset_code) == ApplyRules(asset_code, DenormRules)

(***************************************************************************)
(* Maturity parser                                                         *)
(***************************************************************************)
NoDate == <<>>

IsLeap(y) == y % 4 = 0 /\ (y % 100 # 0 \/ y % 400 = 0)

DaysInMonth(y, m) ==
    IF m = 2 THEN (IF IsLeap(y) THEN 29 ELSE 28)
    ELSE IF m \in {4, 6, 9, 11} THEN 30 ELSE 31

\* datetime.date(year, month, day): a ValueError unless the date exists
DateOrValueError(y, m, d) ==
    IF m \in 1..12 /\ d >= 1 /\ d <= DaysInMonth(y, m) THEN <<y, m, d>> ELSE NoDate

\* re.search(r'(\d{6})$', s): '$' is the end of s, or just before a final "\n";
\* the result is group(1), or <<>> when there is no match
SearchSixDigitsAtEnd(s) ==
    LET t == IF s # <<>> /\ s[Len(s)] = "\n" THEN SubSeq(s, 1, Len(s) - 1) ELSE s
    IN  IF Len(t) >= 6 /\ \A i \in (Len(t) - 5)..Len(t) : IsDigit(t[i])
        THEN SubSeq(t, Len(t) - 5, Len(t))
        ELSE <<>>

IntOf2(s) == 10 * DigitVal(s[1]) + DigitVal(s[2])

\* the century rule with the threshold off by one (yy = 50 read as 1950)
CenturyStrict(yy) == IF yy < 50 THEN yy + 2000 ELSE yy + 1900

Century(yy) == IF yy <= 50 THEN yy + 2000 ELSE yy + 1900

get_maturity_date(asset_code) ==
    LET date_str == SearchSixDigitsAtEnd(Replace(asset_code, <<" ">>, <<>>))
    IN  IF date_str = <<>> THEN NoDate
        ELSE DateOrValueError(Century(IntOf2(SubSeq(date_str, 5, 6))),
                              IntOf2(SubSeq(date_str, 3, 4)),
                              IntOf2(SubSeq(date_str, 1, 2)))

(***************************************************************************)
(* Spreadsheet reader and cleaner                                          *)
(*                                                                         *)
(* A cell is [k |-> "num", v |-> n], [k |-> "str", v |-> chars] or the     *)
(* empty cell [k |-> "nan"].  A coerced value is <<v>>, or <<>> when it is *)
(* missing (NaN / NaT).  A sheet is [name, ncols, raw]: raw is the grid,   *)
(* every row a sequence of ncols cells.  A workbook is [readable, sheets]. *)
(***************************************************************************)
Missing == <<>>

\* the value of a string of decimal digits
RECURSIVE IntOf(_)
IntOf(s) == IF s = <<>> THEN 0 ELSE 10 * IntOf(SubSeq(s, 1, Len(s) - 1)) + DigitVal(s[Len(s)])

\* pd.to_numeric(errors='coerce') of one cell: a number, a numeric string, else NaN
to_numeric(cell) ==
    IF cell.k = "num" THEN <<cell.v>>
    ELSE IF cell.k = "str" /\ cell.v # <<>> /\ \A i \in 1..Len(cell.v) : IsDigit(cell.v[i])
         THEN <<IntOf(cell.v)>>
    ELSE Missing

\* pd.to_datetime(format='%d/%m/%Y', errors='coerce') of one cell
to_datetime(cell) ==
    IF /\ cell.k = "str"
       /\ Len(cell.v) = 10
       /\ cell.v[3] = "/" /\ cell.v[6] = "/"
       /\ \A i \in {1, 2, 4, 5, 7, 8, 9, 10} : IsDigit(cell.v[i])
    THEN LET d == DateOrValueError(IntOf(SubSeq(cell.v, 7, 10)),
                                   IntOf(SubSeq(cell.v, 4, 5)),
                                   IntOf(SubSeq(cell.v, 1, 2)))
         IN  IF d = NoDate THEN Missing ELSE <<d>>
    ELSE Missing

\* pd.read_excel(file_path, sheet_name=..., skiprows=1): the title row is skipped,
\* the next row is the header, the rest is the data
read_excel(sheet) ==
    [ncols |-> sheet.ncols,
     rows |-> IF Len(sheet.raw) > 2 THEN SubSeq(sheet.raw, 3, Len(sheet.raw)) ELSE <<>>]

\* DataFrame.empty
Empty(df) == df.rows = <<>> \/ df.ncols = 0

\* columns 0..4 renamed and coerced (lines 196-203)
Coerce(row) ==
    [ref_date |-> to_datetime(row[1]),
     yield_bid |-> to_numeric(row[2]),
     yield_ask |-> to_numeric(row[3]),
     price_bid |-> to_numeric(row[4]),
     price_ask |-> to_numeric(row[5])]

HasMissing(r) ==
    \/ r.ref_date = Missing
    \/ r.yield_bid = Missing
    \/ r.yield_ask = Missing
    \/ r.price_bid = Missing
    \/ r.price_ask = Missing

\* a cleaner that drops the rows with missing values and keeps the zero bid prices
KeepRowNoZeroFilter(r) == ~HasMissing(r)

\* df.dropna() and df[df['price_bid'] != 0]
KeepRow(r) == ~HasMissing(r) /\ r.price_bid # <<0>>

RECURSIVE CleanRows(_)
CleanRows(rows) ==
    IF rows = <<>> THEN <<>>
    ELSE LET r == Coerce(rows[1])
         IN  (IF KeepRow(r) THEN <<r>> ELSE <<>>) \o CleanRows(Tail(rows))

\* _clean_data: [err, rows]; err is the IndexError of df.iloc[:, [0, 1, 2, 3, 4]]
clean_data(df) ==
    IF Empty(df) THEN [err |-> FALSE, rows |-> <<>>]
    ELSE IF df.ncols < 5 THEN [err |-> TRUE, rows |-> <<>>]
    ELSE [err |-> FALSE, rows |-> CleanRows(df.rows)]

\* df['asset_code'] = sheet_name
Tag(rows, sheet_name) ==
    [i \in 1..Len(rows) |->
        [ref_date |-> rows[i].ref_date,
         yield_bid |-> rows[i].yield_bid,
         yield_ask |-> rows[i].yield_ask,
         price_bid |-> rows[i].price_bid,
         price_ask |-> rows[i].price_ask,
         asset_code |-> sheet_name]]

\* a reader that catches the failure of one sheet and goes on with the next
RECURSIVE ReadSheetsPerSheetRecovery(_)
ReadSheetsPerSheetRecovery(sheets) ==
    IF sheets = <<>> THEN [err |-> FALSE, rows |-> <<>>]
    ELSE LET c == clean_data(read_excel(sheets[1]))
             rest == ReadSheetsPerSheetRecovery(Tail(sheets))
         IN  [err |-> FALSE,
              rows |-> (IF c.err THEN <<>> ELSE Tag(c.rows, sheets[1].name)) \o rest.rows]

\* the loop over excel_file.sheet_names: [err, rows], all_data concatenated
RECURSIVE ReadSheets(_)
ReadSheets(sheets) ==
    IF sheets = <<>> THEN [err |-> FALSE, rows |-> <<>>]
    ELSE LET df == read_excel(sheets[1])
             c == clean_data(df)
             rest == ReadSheets(Tail(sheets))
         IN  IF ~Empty(df) /\ c.err THEN [err |-> TRUE, rows |-> <<>>]
             ELSE IF rest.err THEN rest
             ELSE [err |-> FALSE, rows |-> Tag(c.rows, sheets[1].name) \o rest.rows]

\* _read_excel_file: the table, empty on any exception (lines 250-252)
read_excel_file(wb) ==
    IF ~wb.readable THEN <<>>
    ELSE LET r == ReadSheets(wb.sheets)
         IN  IF r.err THEN <<>> ELSE r.rows

(***************************************************************************)
(* The parts of the state a specification does not use                     *)
(***************************************************************************)
IdleCode == code = <<>> /\ cop = "in" /\ cout = <<>>

IdleRead == book = <<>> /\ rdone = FALSE /\ table = <<>>

IdleRun ==
    /\ year = FIRST_YEAR /\ disk = "ok" /\ epoch = 0
    /\ rootDir = FALSE /\ dirs = {} /\ cache = <<>>
    /\ pc = "idle" /\ req = <<>> /\ asset_codes = <<>> /\ years = <<>>
    /\ ai = 0 /\ yi = 0 /\ all_files = <<>> /\ result = <<>> /\ exc = ""
    /\ runs = 0 /\ ngets = 0 /\ snap = <<>> /\ prev = <<>> /\ hist = <<>>
    /\ lastFetch = <<>>

(***************************************************************************)
(* Specification SpecCode: the string functions applied to bounded inputs  *)
(***************************************************************************)
Days == {0, 1, 15, 28, 29, 30, 31, 32}
Months == {0, 1, 2, 4, 5, 12, 13}
Years2 == {0, 4, 23, 45, 50, 51, 96, 99}

Prefixes == {<<>>, LTN \o <<" ">>, D_NTN_B_Principal \o <<" ">>, <<"7">>}
DayParts == {TwoDigits(d) : d \in Days} \cup {<<>>, <<"X", "1">>}
Seps == {<<>>, <<" ">>, <<"\t">>}
Trailers == {<<>>, <<" ">>, <<"\n">>, <<"A">>}

MaturityInputs ==
    {p \o d \o TwoDigits(m) \o s \o TwoDigits(y) \o t :
        p \in Prefixes, d \in DayParts, m \in Months, s \in Seps, y \in Years2,
        t \in Trailers}

CatalogSet == {AVAILABLE_ASSETS[i] : i \in 1..Len(AVAILABLE_ASSETS)}

CodeInputs ==
    MaturityInputs \cup CatalogSet
        \cup {S_NTN_B_Principal \o <<"_">> \o TwoDigits(15) \o TwoDigits(5) \o TwoDigits(45)}

InitCode ==
    /\ code \in CodeInputs
    /\ cop = "in"
    /\ cout = <<>>
    /\ IdleRead
    /\ IdleRun

\* storage = self._normalize_asset_code(code)
Normalize ==
    /\ cop = "in"
    /\ cout' = normalize_asset_code(code)
    /\ cop' = "norm"
    /\ UNCHANGED <<code, readVars, runVars>>

\* self._denormalize_asset_code(storage)
DenormalizeBack ==
    /\ cop = "norm"
    /\ cout' = denormalize_asset_code(cout)
    /\ cop' = "round"
    /\ UNCHANGED <<code, readVars, runVars>>

\* self._denormalize_asset_code(code)
Denormalize ==
    /\ cop = "in"
    /\ cout' = denormalize_asset_code(code)
    /\ cop' = "denorm"
    /\ UNCHANGED <<code, readVars, runVars>>

\* self._get_maturity_date(code)
Maturity ==
    /\ cop = "in"
    /\ cout' = get_maturity_date(code)
    /\ cop' = "mat"
    /\ UNCHANGED <<code, readVars, runVars>>

NextCode == Normalize \/ DenormalizeBack \/ Denormalize \/ Maturity

SpecCode == InitCode /\ [][NextCode]_vars

(***************************************************************************)
(* Specification SpecRead: _read_excel_file applied to bounded workbooks   *)
(***************************************************************************)
MaxRows == 2
MaxSheets == 2

Num(n) == [k |-> "num", v |-> n]
Str(chars) == [k |-> "str", v |-> chars]
Nan == [k |-> "nan"]

\* "dd/mm/yyyy"
DateStr(d, m, y) ==
    Str(TwoDigits(d) \o <<"/">> \o TwoDigits(m) \o <<"/">> \o TwoDigits(y \div 100)
            \o TwoDigits(y % 100))

\* source rows of six cells: the five columns read and one the cleaner ignores
RowA == <<DateStr(2, 1, 2006), Num(10), Num(11), Num(900), Num(899), Nan>>
RowB == <<DateStr(1, 2, 2006), Str(<<"1", "2">>), Num(11), Num(905), Num(0), Str(<<"X">>)>>
RowZeroBid == <<DateStr(3, 1, 2006), Num(10), Num(11), Num(0), Num(899), Nan>>
RowZeroBidText == <<DateStr(3, 1, 2006), Num(10), Num(11), Str(<<"0">>), Num(899), Nan>>
RowJunkYield == <<DateStr(4, 1, 2006), Str(<<"X">>), Num(11), Num(900), Num(899), Nan>>
RowBadDate == <<DateStr(31, 2, 2006), Num(10), Num(11), Num(900), Num(899), Nan>>
RowBlank == <<Nan, Nan, Nan, Nan, Nan, Nan>>

RowSamples == {RowA, RowB, RowZeroBid, RowZeroBidText, RowJunkYield, RowBadDate, RowBlank}

TitleRow == <<Str(<<"L", "T", "N">>), Nan, Nan, Nan, Nan, Nan>>
HeaderRow == <<Str(<<"D", "i", "a">>), Str(<<"T">>), Str(<<"T">>), Str(<<"P">>), Str(<<"P">>), Str(<<"P">>)>>

SeqsUpTo(S, n) == UNION {[1..k -> S] : k \in 0..n}

\* a sheet of ncols columns: the title row, the header row, then the data rows
MkSheet(name, ncols, data) ==
    LET grid == <<TitleRow, HeaderRow>> \o data
    IN  [name |-> name, ncols |-> ncols,
         raw |-> [i \in 1..Len(grid) |-> SubSeq(grid[i], 1, ncols)]]

SheetLTN25 == LTN \o <<" ">> \o TwoDigits(1) \o TwoDigits(1) \o TwoDigits(25)
SheetLTN26 == LTN \o <<" ">> \o TwoDigits(1) \o TwoDigits(1) \o TwoDigits(26)
SheetNTNBP == S_NTN_B_Principal \o <<"_">> \o TwoDigits(15) \o TwoDigits(5) \o TwoDigits(45)

FirstSheets ==
    {MkSheet(SheetLTN26, n, d) : n \in {4, 5, 6}, d \in SeqsUpTo(RowSamples, MaxRows)}
        \cup {[name |-> SheetLTN26, ncols |-> 0, raw |-> <<>>],
              [name |-> SheetLTN26, ncols |-> 5, raw |-> <<SubSeq(TitleRow, 1, 5)>>]}

OtherSheets ==
    {MkSheet(SheetLTN25, 5, <<RowB, RowA>>),
     MkSheet(SheetLTN25, 4, <<RowA>>),
     MkSheet(SheetLTN25, 4, <<>>),
     MkSheet(SheetLTN25, 6, <<RowZeroBid, RowBlank>>)}

InitRead ==
    /\ \/ book \in {[readable |-> FALSE, sheets |-> <<>>], [readable |-> TRUE, sheets |-> <<>>]}
       \/ \E a \in FirstSheets, rest \in SeqsUpTo(OtherSheets, MaxSheets - 1) :
             book \in {[readable |-> TRUE, sheets |-> <<a>> \o rest],
                       [readable |-> TRUE, sheets |-> rest \o <<a>>]}
    /\ rdone = FALSE
    /\ table = <<>>
    /\ IdleCode
    /\ IdleRun

\* self._read_excel_file(file_path)
ReadFile ==
    /\ ~rdone
    /\ table' = read_excel_file(book)
    /\ rdone' = TRUE
    /\ UNCHANGED <<book, codeVars, runVars>>

NextRead == ReadFile

SpecRead == InitRead /\ [][NextRead]_vars

(***************************************************************************)
(* File cache / fetcher                                                    *)
(***************************************************************************)
\* local_file of (asset_code, year): the folder and file names both derive from
\* the normalized code, so the pair <<normalized code, year>> stands for the path
LocalFile(asset_code, y) == <<normalize_asset_code(asset_code), y>>

Exists(c, p) == p \in DOMAIN c

\* the file at p written with content b
WriteFile(c, p, b) == [q \in DOMAIN c \cup {p} |-> IF q = p THEN b ELSE c[q]]

\* the file at p removed
RemoveFile(c, p) == [q \in DOMAIN c \ {p} |-> c[q]]

\* session.get(url) and raise_for_status() end in r: the name of a body, "neterr"
\* (no response) or "httperr" (an error status after the retries)
IsFailure(r) == r \in {"neterr", "httperr"}

\* a cache rule that trusts every file it finds, the current year's too
UseCachedAnyYear(exists, y, current_year) == exists

\* line 161: local_file.exists() and year != current_year
UseCached(exists, y, current_year) == exists /\ y # current_year

\* a handler that removes the stale file when the download fails
RemoveOnFailure(c, p) == IF Exists(c, p) THEN RemoveFile(c, p) ELSE c

\* lines 179-181: the handler of RequestException touches no file
OnRequestException(c, p) == c

\* lines 173-174: open(local_file, 'wb') and f.write(response.content).
\* On a full disk open() has created or emptied the file before write() fails.
Persist(c, p, body, dsk) ==
    IF dsk = "ok" THEN [cache |-> WriteFile(c, p, body), wrote |-> TRUE, exc |-> ""]
    ELSE IF dsk = "full"
         THEN [cache |-> WriteFile(c, p, "trunc"), wrote |-> TRUE, exc |-> "OSError"]
    ELSE [cache |-> c, wrote |-> FALSE, exc |-> "OSError"]

\* _download_file: ret is <<>> for None and <<path>> for a path; exc is the
\* exception that leaves the method
download_file(c, dsk, r, current_year, asset_code, y) ==
    LET local_file == LocalFile(asset_code, y)
        had == Exists(c, local_file)
        base == [path |-> local_file, had |-> had, cur |-> (y = current_year),
                 past |-> (y < current_year),
                 get |-> FALSE, resp |-> "", ok |-> FALSE, wrote |-> FALSE,
                 ret |-> <<>>, exc |-> "", cache |-> c]
    IN  IF UseCached(had, y, current_year)
        THEN [base EXCEPT !.ret = <<local_file>>]
        ELSE IF IsFailure(r)
             THEN [base EXCEPT !.get = TRUE, !.resp = r,
                               !.cache = OnRequestException(c, local_file)]
             ELSE LET w == Persist(c, local_file, r, dsk)
                  IN  [base EXCEPT !.get = TRUE, !.resp = r, !.ok = TRUE,
                                   !.wrote = w.wrote,
                                   !.cache = w.cache,
                                   !.exc = w.exc,
                                   !.ret = IF w.exc = "" THEN <<local_file>> ELSE <<>>]

(***************************************************************************)
(* What the files hold                                                     *)
(***************************************************************************)
SheetNTNB35 == S_NTN_B \o <<" ">> \o TwoDigits(15) \o TwoDigits(5) \o TwoDigits(35)

Px(n) == <<Num(10), Num(11), Num(n), Num(n + 1)>>

\* the workbook published for (normalized code, y) under the name kind
Published(p, kind) ==
    LET y == p[2]
        a == <<DateStr(2, 1, y)>> \o Px(900)
        b == <<DateStr(1, 2, y)>> \o Px(905)
        z == <<DateStr(3, 1, y)>> \o Px(0)
        s1 == IF p[1] = LTN THEN SheetLTN26 ELSE SheetNTNBP
        s2 == IF p[1] = LTN THEN SheetLTN25 ELSE SheetNTNB35
    IN  IF kind = "data"
          THEN [readable |-> TRUE, sheets |-> <<MkSheet(s1, 5, <<b, z, a>>), MkSheet(s2, 5, <<a>>)>>]
        ELSE IF kind = "more"
          THEN [readable |-> TRUE, sheets |-> <<MkSheet(s1, 5, <<b, a>>), MkSheet(s2, 5, <<b, a>>)>>]
        ELSE IF kind = "empty"
          THEN [readable |-> TRUE, sheets |-> <<MkSheet(s1, 5, <<z>>), MkSheet(s2, 5, <<>>)>>]
        ELSE [readable |-> FALSE, sheets |-> <<>>]

(***************************************************************************)
(* Pipeline                                                                *)
(***************************************************************************)
\* list(range(first, last + 1))
Range(first, last) == [k \in 1..(last - first + 1) |-> first + k - 1]

\* a validation that looks at the first requested code only
InvalidFirstOnly(codes) ==
    IF codes # <<>> /\ ~InCatalog(codes[1]) THEN <<codes[1]>> ELSE <<>>

\* line 286: [code for code in asset_codes if code not in self.AVAILABLE_ASSETS]
InvalidCodes(codes) == SelectSeq(codes, LAMBDA c : ~InCatalog(c))

DateLess(d, e) ==
    \/ d[1] < e[1]
    \/ d[1] = e[1] /\ d[2] < e[2]
    \/ d[1] = e[1] /\ d[2] = e[2] /\ d[3] < e[3]

\* an ordering by ref_date alone
RowLessByDate(r, q) == DateLess(r.ref_date[1], q.ref_date[1])

\* the order of sort_values(['asset_code', 'ref_date'])
RowLess(r, q) ==
    \/ StrLess(r.asset_code, q.asset_code)
    \/ r.asset_code = q.asset_code /\ DateLess(r.ref_date[1], q.ref_date[1])

\* r put after the last row that is not greater (the sort is stable)
RECURSIVE Insert(_, _)
Insert(sorted, r) ==
    IF sorted = <<>> THEN <<r>>
    ELSE IF RowLess(r, sorted[Len(sorted)])
         THEN Insert(SubSeq(sorted, 1, Len(sorted) - 1), r) \o <<sorted[Len(sorted)]>>
         ELSE sorted \o <<r>>

RECURSIVE sort_values(_)
sort_values(rows) ==
    IF rows = <<>> THEN <<>>
    ELSE Insert(sort_values(SubSeq(rows, 1, Len(rows) - 1)), rows[Len(rows)])

\* lines 330-333: asset_code denormalized, maturity_date added
Finish(rows) ==
    [i \in 1..Len(rows) |->
        LET display == denormalize_asset_code(rows[i].asset_code)
        IN  [ref_date |-> rows[i].ref_date,
             yield_bid |-> rows[i].yield_bid,
             yield_ask |-> rows[i].yield_ask,
             price_bid |-> rows[i].price_bid,
             price_ask |-> rows[i].price_ask,
             asset_code |-> display,
             maturity_date |-> get_maturity_date(display)]]

\* lines 316-320 and 327: every file read, the non-empty tables concatenated
RECURSIVE ReadAll(_, _)
ReadAll(c, files) ==
    IF files = <<>> THEN <<>>
    ELSE read_excel_file(Published(files[1], c[files[1]])) \o ReadAll(c, Tail(files))

\* lines 309-343
Consolidate(c, files) == sort_values(Finish(ReadAll(c, files)))

(***************************************************************************)
(* Specification SpecRun: calls of get_treasury_data, one after the other, *)
(* against one cache directory, in an environment that may change          *)
(***************************************************************************)
MaxRuns == 2
MaxEnvChanges == 1

CDB == <<"C", "D", "B">>

YearNow == FIRST_YEAR + 1

\* the paths the server lists, and what it may answer for each
Listed == {LTN, S_NTN_B_Principal} \X {FIRST_YEAR, YearNow}

Choices(p) ==
    IF p = <<LTN, FIRST_YEAR>> THEN {"data", "corrupt", "neterr"}
    ELSE IF p = <<LTN, YearNow>> THEN {"data", "httperr"}
    ELSE IF p = <<S_NTN_B_Principal, FIRST_YEAR>> THEN {"data", "empty"}
    ELSE IF p = <<S_NTN_B_Principal, YearNow>> THEN {"more", "neterr"}
    ELSE {"httperr"}

Disks == {"ok", "full", "denied"}

\* the arguments of a call; codesNone and lastNone say that None was passed
Req(codesNone, codes, first, lastNone, last) ==
    [codesNone |-> codesNone, codes |-> codes, first |-> first, lastNone |-> lastNone,
     last |-> last]

Requests ==
    {Req(FALSE, <<NTN_B_Principal, LTN>>, FIRST_YEAR - 1, TRUE, 0),
     Req(FALSE, <<LTN>>, FIRST_YEAR, FALSE, FIRST_YEAR),
     Req(FALSE, <<LTN>>, YearNow, TRUE, 0),
     Req(FALSE, <<LTN>>, YearNow, FALSE, FIRST_YEAR),
     Req(FALSE, <<LTN, CDB>>, FIRST_YEAR, FALSE, FIRST_YEAR),
     Req(TRUE, <<>>, YearNow, TRUE, 0)}

InitRun ==
    /\ year = YearNow
    /\ disk \in Disks
    /\ epoch = 0
    /\ rootDir = FALSE /\ dirs = {} /\ cache = <<>>
    /\ pc = "idle" /\ req = <<>> /\ asset_codes = <<>> /\ years = <<>>
    /\ ai = 0 /\ yi = 0 /\ all_files = <<>> /\ result = <<>> /\ exc = ""
    /\ runs = 0 /\ ngets = 0 /\ snap = <<>> /\ prev = <<>> /\ hist = <<>>
    /\ lastFetch = <<>>
    /\ IdleCode
    /\ IdleRead

Ended == pc \in {"returned", "raised"}

\* the calendar year ends
Tick ==
    /\ epoch < MaxEnvChanges
    /\ year' = year + 1
    /\ epoch' = epoch + 1
    /\ UNCHANGED <<disk, dirVars, callVars, histVars, codeVars, readVars>>

\* the disk fills up, is freed, or the folders change their permissions
DiskChange ==
    /\ epoch < MaxEnvChanges
    /\ disk' \in Disks \ {disk}
    /\ epoch' = epoch + 1
    /\ UNCHANGED <<year, dirVars, callVars, histVars, codeVars, readVars>>

\* the module-level get_treasury_data is called: TesouroDireto(cache_dir) is
\* constructed (line 62 creates cache_dir) and its get_treasury_data entered
Call ==
    /\ pc = "idle" \/ Ended
    /\ runs < MaxRuns
    /\ req' \in Requests
    /\ rootDir' = TRUE
    /\ runs' = runs + 1
    /\ prev' = IF runs = 0 THEN <<>>
               ELSE <<[req |-> req, pc |-> pc, result |-> result, exc |-> exc,
                       epoch |-> snap.epoch]>>
    /\ snap' = [cache |-> cache, dirs |-> dirs, ngets |-> ngets, epoch |-> epoch]
    /\ pc' = "validate"
    /\ asset_codes' = <<>> /\ years' = <<>> /\ ai' = 0 /\ yi' = 0
    /\ all_files' = <<>> /\ result' = <<>> /\ exc' = ""
    /\ UNCHANGED <<envVars, dirs, cache, ngets, hist, lastFetch, codeVars, readVars>>

\* lines 275-298: the parameters are adjusted and the asset codes validated
Validate ==
    /\ pc = "validate"
    /\ LET first == IF req.first < FIRST_YEAR THEN FIRST_YEAR ELSE req.first
           last == IF req.lastNone THEN year ELSE req.last
           codes == IF req.codesNone THEN AVAILABLE_ASSETS ELSE req.codes
       IN  IF InvalidCodes(codes) # <<>>
           THEN /\ pc' = "raised"
                /\ exc' = "ValueError"
                /\ UNCHANGED <<asset_codes, years, ai, yi>>
           ELSE /\ asset_codes' = codes
                /\ years' = Range(first, last)
                /\ exc' = ""
                /\ IF codes = <<>> \/ last < first
                   THEN pc' = "process" /\ ai' = 0 /\ yi' = 0
                   ELSE pc' = "download" /\ ai' = 1 /\ yi' = 1
    /\ UNCHANGED <<req, all_files, result, envVars, dirVars, histVars, codeVars, readVars>>

\* lines 301-306: one turn of the loops, a whole _download_file call
Download ==
    /\ pc = "download"
    /\ \E r \in Choices(LocalFile(asset_codes[ai], years[yi])) :
       LET d == download_file(cache, disk, r, year, asset_codes[ai], years[yi])
           ev == [had |-> d.had, cur |-> d.cur, past |-> d.past, get |-> d.get,
                  resp |-> d.resp, exc |-> d.exc,
                  left |-> Exists(d.cache, d.path)]
       IN  /\ dirs' = dirs \cup {d.path[1]}
           /\ cache' = d.cache
           /\ ngets' = ngets + (IF d.get THEN 1 ELSE 0)
           /\ hist' = [q \in DOMAIN hist \cup {d.path} |->
                          IF q = d.path
                          THEN (IF q \in DOMAIN hist THEN hist[q] ELSE <<>>) \o <<ev>>
                          ELSE hist[q]]
           /\ lastFetch' = <<[path |-> d.path, had |-> d.had, cur |-> d.cur, get |-> d.get,
                              ok |-> d.ok, wrote |-> d.wrote, ret |-> d.ret, exc |-> d.exc]>>
           /\ IF d.exc # ""
              THEN /\ pc' = "raised"
                   /\ exc' = d.exc
                   /\ UNCHANGED <<all_files, ai, yi>>
              ELSE /\ all_files' = all_files \o d.ret
                   /\ exc' = ""
                   /\ IF yi < Len(years) THEN pc' = pc /\ ai' = ai /\ yi' = yi + 1
                      ELSE IF ai < Len(asset_codes) THEN pc' = pc /\ ai' = ai + 1 /\ yi' = 1
                      ELSE pc' = "process" /\ ai' = ai /\ yi' = yi
    /\ UNCHANGED <<req, asset_codes, years, result, rootDir, envVars, runs, snap, prev,
                   codeVars, readVars>>

\* lines 309-343: the files are read, the rows consolidated and sorted
Process ==
    /\ pc = "process"
    /\ result' = IF all_files = <<>> THEN <<>> ELSE Consolidate(cache, all_files)
    /\ pc' = "returned"
    /\ UNCHANGED <<req, asset_codes, years, ai, yi, all_files, exc, envVars, dirVars,
                   histVars, codeVars, readVars>>

NextRun == Call \/ Validate \/ Download \/ Process \/ Tick \/ DiskChange

SpecRun == InitRun /\ [][NextRun]_vars

(***************************************************************************)
(* C4: round trip over the catalog                                         *)
(***************************************************************************)
\* C4 as stated: for every catalog code c, denormalize(normalize(c)) = c.
C4_RoundTripAsStated ==
    (cop = "round" /\ InCatalog(code)) => cout = code

\* C4 amended: denormalize(normalize(c)) = c for every catalog code c other
\* than "NTN-B_Principal", whose round trip is the display name "NTN-B Principal".
C4_RoundTrip ==
    (cop = "round" /\ InCatalog(code)) =>
        cout = (IF code = NTN_B_Principal THEN D_NTN_B_Principal ELSE code)

\* a hyphenated catalog code has gone through normalize and denormalize
C4_Witness == cop = "round" /\ code = NTN_B /\ cout = NTN_B

(***************************************************************************)
(* C8: maturity date                                                       *)
(***************************************************************************)
RECURSIVE Without(_, _)
Without(s, chars) ==
    IF s = <<>> THEN <<>>
    ELSE IF s[1] \in chars THEN Without(Tail(s), chars)
    ELSE <<s[1]>> \o Without(Tail(s), chars)

\* length of the run of digits that ends s
RECURSIVE DigitRun(_)
DigitRun(s) ==
    IF s = <<>> \/ ~IsDigit(s[Len(s)]) THEN 0
    ELSE 1 + DigitRun(SubSeq(s, 1, Len(s) - 1))

\* the date that the last six characters of s (digits ddmmyy) denote, if it exists
DateOfTail(s) ==
    LET n == Len(s)
        dd == 10 * DigitVal(s[n - 5]) + DigitVal(s[n - 4])
        mm == 10 * DigitVal(s[n - 3]) + DigitVal(s[n - 2])
        yy == 10 * DigitVal(s[n - 1]) + DigitVal(s[n])
        yyyy == IF yy <= 50 THEN 2000 + yy ELSE 1900 + yy
    IN  IF mm >= 1 /\ mm <= 12 /\ dd >= 1 /\ dd <= DaysInMonth(yyyy, mm)
        THEN <<yyyy, mm, dd>> ELSE NoDate

\* C8 as stated: with all whitespace stripped, the result is the date ddmmyy when
\* the code ends in a run of exactly 6 digits that form a valid date, else none.
C8_MaturityAsStated ==
    cop = "mat" =>
        LET s == Without(code, {" ", "\t", "\n"})
        IN  cout = (IF DigitRun(s) = 6 THEN DateOfTail(s) ELSE NoDate)

\* C8 amended: with the space characters removed and one final line feed ignored,
\* the result is the date ddmmyy (20yy when yy <= 50, else 19yy) when the code ends
\* in at least 6 digits of which the last six form a valid date, else none.
C8_Maturity ==
    cop = "mat" =>
        LET s0 == Without(code, {" "})
            s == IF s0 # <<>> /\ s0[Len(s0)] = "\n" THEN SubSeq(s0, 1, Len(s0) - 1) ELSE s0
        IN  cout = (IF DigitRun(s) >= 6 THEN DateOfTail(s) ELSE NoDate)

\* "NTN-B Principal 150545" has been parsed to 15 May 2045
C8_Witness ==
    /\ cop = "mat"
    /\ code = D_NTN_B_Principal \o <<" ">> \o TwoDigits(15) \o TwoDigits(5) \o TwoDigits(45)
    /\ cout = <<2045, 5, 15>>

(***************************************************************************)
(* C6: the rows the reader emits                                           *)
(***************************************************************************)
\* the data rows of a sheet, as the reader sees them
DataRows(sh) == IF Len(sh.raw) > 2 THEN SubSeq(sh.raw, 3, Len(sh.raw)) ELSE <<>>

\* a source row with price_bid = 0, an unparseable number or an unparseable date
Defective(row) ==
    \/ to_datetime(row[1]) = Missing
    \/ \E j \in 2..5 : to_numeric(row[j]) = Missing
    \/ to_numeric(row[4]) = <<0>>

\* C6: every row _read_excel_file emits has price_bid # 0 and none of ref_date,
\* yield_bid, yield_ask, price_bid, price_ask missing, and no emitted row comes
\* from a source row with a zero bid price, an unparseable number or date.
C6_CleanRows ==
    rdone =>
        /\ \A i \in 1..Len(table) :
              /\ table[i].price_bid # <<0>>
              /\ table[i].ref_date # Missing
              /\ table[i].yield_bid # Missing
              /\ table[i].yield_ask # Missing
              /\ table[i].price_bid # Missing
              /\ table[i].price_ask # Missing
        /\ \A k \in 1..Len(book.sheets) :
              LET sh == book.sheets[k]
              IN  \A j \in 1..Len(DataRows(sh)) :
                     (sh.ncols >= 5 /\ Defective(DataRows(sh)[j])) =>
                        \A i \in 1..Len(table) :
                           ~(/\ table[i].asset_code = sh.name
                             /\ table[i].ref_date = to_datetime(DataRows(sh)[j][1])
                             /\ table[i].price_bid = to_numeric(DataRows(sh)[j][4]))

\* a sheet with a zero-bid row and a good row has been read: only the good row is out
C6_Witness ==
    /\ rdone
    /\ Len(book.sheets) = 1
    /\ DataRows(book.sheets[1]) = <<SubSeq(RowZeroBid, 1, 5), SubSeq(RowA, 1, 5)>>
    /\ Len(table) = 1
    /\ table[1].price_bid = <<900>>

(***************************************************************************)
(* C9: the table of a workbook                                             *)
(***************************************************************************)
\* whether df.iloc[:, [0, 1, 2, 3, 4]] can be taken of the sheet's data
Cleanable(sh) == DataRows(sh) = <<>> \/ sh.ncols = 0 \/ sh.ncols >= 5

GoodRow(r) ==
    /\ r.ref_date # Missing /\ r.yield_bid # Missing /\ r.yield_ask # Missing
    /\ r.price_bid # Missing /\ r.price_ask # Missing /\ r.price_bid # <<0>>

\* the surviving rows of one cleanable sheet, tagged with its name
Survivors(sh) ==
    IF sh.ncols < 5 THEN <<>>
    ELSE LET coerced == [j \in 1..Len(DataRows(sh)) |-> Coerce(DataRows(sh)[j])]
         IN  Tag(SelectSeq(coerced, GoodRow), sh.name)

RECURSIVE ConcatSurvivors(_)
ConcatSurvivors(sheets) ==
    IF sheets = <<>> THEN <<>>
    ELSE (IF Cleanable(sheets[1]) THEN Survivors(sheets[1]) ELSE <<>>)
            \o ConcatSurvivors(Tail(sheets))

\* C9 as stated: for a workbook that can be opened the result is the concatenation,
\* in sheet order, of every sheet's surviving rows; a sheet that cannot be cleaned
\* contributes nothing and leaves the rows of the other sheets in the result.
C9_PerSheetAsStated ==
    (rdone /\ book.readable) => table = ConcatSurvivors(book.sheets)

\* C9 amended: the result is that concatenation when every sheet can be cleaned;
\* when the workbook cannot be opened or any one sheet with data has fewer than
\* five columns, the result is the empty table, the other sheets' rows included.
C9_WholeFile ==
    rdone =>
        table = (IF book.readable /\ \A k \in 1..Len(book.sheets) : Cleanable(book.sheets[k])
                 THEN ConcatSurvivors(book.sheets)
                 ELSE <<>>)

\* a workbook with a sheet that yields rows and a four-column sheet has been read
C9_Witness ==
    /\ rdone
    /\ book.readable
    /\ Len(book.sheets) = 2
    /\ Survivors(book.sheets[1]) # <<>>
    /\ ~Cleanable(book.sheets[2])
    /\ table = <<>>

(***************************************************************************)
(* C1: cache policy                                                        *)
(***************************************************************************)
\* the paths fetched at least twice, the first time with no file in the cache,
\* and with a year before the current one at both fetches
TwiceWhenPast ==
    {p \in DOMAIN hist :
        /\ Len(hist[p]) >= 2
        /\ ~hist[p][1].had
        /\ hist[p][1].past /\ hist[p][2].past}

GetsOfFirstTwo(p) ==
    (IF hist[p][1].get THEN 1 ELSE 0) + (IF hist[p][2].get THEN 1 ELSE 0)

\* every fetch of a file of the current year issued a GET
CurrentYearAlwaysGets ==
    \A p \in DOMAIN hist : \A i \in 1..Len(hist[p]) : hist[p][i].cur => hist[p][i].get

\* C1 as stated: two requests of a pair with year < currentYear, the first from a
\* cache with no file for it, issue exactly one GET in total, the second none;
\* a request with year = currentYear issues a GET on every invocation.
\* (Stated of the requests that raised nothing, which is all the statement needs
\* to fail.)
C1_CachePolicyAsStated ==
    /\ \A p \in TwiceWhenPast :
          (hist[p][1].exc = "" /\ hist[p][2].exc = "") =>
              (GetsOfFirstTwo(p) = 1 /\ ~hist[p][2].get)
    /\ CurrentYearAlwaysGets

\* C1 amended: such two requests issue exactly one GET in total when the first
\* request left a file at the path (its GET succeeded and the file could be
\* created), the second then issuing none, and two GETs when it left none (the
\* GET failed, or the file could not be created); a request with
\* year = currentYear issues a GET on every invocation.
C1_CachePolicy ==
    /\ \A p \in TwiceWhenPast :
          /\ hist[p][1].get
          /\ hist[p][1].left => (GetsOfFirstTwo(p) = 1 /\ ~hist[p][2].get)
          /\ ~hist[p][1].left => GetsOfFirstTwo(p) = 2
    /\ CurrentYearAlwaysGets

\* a past year's file was downloaded by the first request and served from the
\* cache by the second, and a current year's file was downloaded twice
C1_Witness ==
    /\ \E p \in TwiceWhenPast : hist[p][1].left /\ ~hist[p][2].get
    /\ \E p \in DOMAIN hist :
          /\ Len(hist[p]) = 2
          /\ hist[p][1].cur /\ hist[p][1].left
          /\ hist[p][2].cur /\ hist[p][2].had /\ hist[p][2].get

(***************************************************************************)
(* C2: validation is fail-fast                                             *)
(***************************************************************************)
InCall == pc # "idle"

\* the call names an asset type outside the catalog
HasInvalid(r) == ~r.codesNone /\ \E i \in 1..Len(r.codes) : ~InCatalog(r.codes[i])

\* C2: a call whose asset list holds a type outside the catalog never gets past
\* the validation: it ends with ValueError, and up to then no GET has been issued
\* and no folder or file has been created in the cache directory.
C2_FailFast ==
    (InCall /\ HasInvalid(req)) =>
        /\ pc \in {"validate", "raised"}
        /\ pc = "raised" => exc = "ValueError"
        /\ ngets = snap.ngets
        /\ cache = snap.cache
        /\ dirs = snap.dirs

\* the second call, made against a cache the first call filled, asked for a valid
\* and an invalid type and has ended with ValueError
C2_Witness ==
    /\ pc = "raised" /\ exc = "ValueError"
    /\ req.codes = <<LTN, CDB>>
    /\ runs = 2 /\ ngets > 0 /\ cache # <<>>

(***************************************************************************)
(* C3: only validation is fatal                                            *)
(***************************************************************************)
\* C3 as stated: a call whose asset types are all in the catalog never raises,
\* whatever the fetches answer and whether or not the bodies can be stored.
C3_NeverRaises == pc = "raised" => HasInvalid(req)

(***************************************************************************)
(* C5: the result is sorted                                                *)
(***************************************************************************)
\* C5: any two consecutive rows r1, r2 of a returned dataset have
\* r1.asset_code < r2.asset_code, or the same asset_code and r1.ref_date <= r2.ref_date.
C5_Sorted ==
    pc = "returned" =>
        \A i \in 1..(Len(result) - 1) :
            \/ StrLess(result[i].asset_code, result[i + 1].asset_code)
            \/ /\ result[i].asset_code = result[i + 1].asset_code
               /\ ~DateLess(result[i + 1].ref_date[1], result[i].ref_date[1])

\* NTN-B_Principal was requested before LTN, two years of each were read, and the
\* dataset returned has rows of both
C5_Witness ==
    /\ pc = "returned"
    /\ req.codes = <<NTN_B_Principal, LTN>>
    /\ Len(all_files) = 4
    /\ \E i, j \in 1..Len(result) :
          /\ result[i].asset_code = SheetLTN25
          /\ result[j].asset_code = D_NTN_B_Principal \o <<" ">> \o TwoDigits(15)
                                        \o TwoDigits(5) \o TwoDigits(45)
          /\ i < j

(***************************************************************************)
(* C7: idempotence                                                         *)
(***************************************************************************)
\* every GET of a path got the same answer
SameResponses ==
    \A p \in DOMAIN hist : \A i, j \in 1..Len(hist[p]) :
        (hist[p][i].get /\ hist[p][j].get) => hist[p][i].resp = hist[p][j].resp

\* the call that has ended repeats the previous call in an unchanged environment
Repeated ==
    /\ Ended
    /\ prev # <<>>
    /\ prev[1].req = req
    /\ prev[1].epoch = epoch
    /\ SameResponses

\* C7 as stated: the second of two identical calls, made in succession against
\* the same cache directory with the same fetch responses and the same current
\* year, yields what the first did.
C7_Idempotent ==
    Repeated => (pc = prev[1].pc /\ exc = prev[1].exc /\ result = prev[1].result)

(***************************************************************************)
(* C10: cache frame                                                        *)
(***************************************************************************)
\* the step is a _download_file call
Fetched == hist' # hist

ContentChanged(p) == p \in DOMAIN cache' /\ (p \notin DOMAIN cache \/ cache'[p] # cache[p])

\* C10: no step deletes a cached file; a step changes the content of a file only
\* if it is a fetch of that file's pair whose GET succeeded; a cache hit and a
\* failed GET change nothing, the failed GET returning None even when a file of
\* the current year is there; a file of another year than the current one is
\* never written again.
C10_Frame ==
    [][/\ \A p \in DOMAIN cache : p \in DOMAIN cache'
       /\ \A p \in DOMAIN cache' :
             ContentChanged(p) =>
                (Fetched /\ lastFetch'[1].path = p /\ lastFetch'[1].get /\ lastFetch'[1].ok)
       /\ Fetched =>
             /\ (~lastFetch'[1].get \/ ~lastFetch'[1].ok) =>
                    (cache' = cache /\ ~lastFetch'[1].wrote)
             /\ (lastFetch'[1].get /\ ~lastFetch'[1].ok) => lastFetch'[1].ret = <<>>
             /\ (lastFetch'[1].had /\ ~lastFetch'[1].cur) =>
                    (~lastFetch'[1].wrote /\ cache' = cache)
      ]_vars

\* the re-fetch of a current-year file already in the cache has just failed, and
\* the file is still there with the content it had
C10_Witness ==
    /\ lastFetch # <<>>
    /\ lastFetch[1].had /\ lastFetch[1].cur
    /\ lastFetch[1].get /\ ~lastFetch[1].ok
    /\ lastFetch[1].ret = <<>>
    /\ Exists(cache, lastFetch[1].path)
    /\ cache[lastFetch[1].path] = "data"

====
